---- MODULE Spec2Model ----
(***************************************************************************)
(* Casa Inteligente (src/práctica3.py): the device classes                 *)
(* LuzInteligente, CamaraSeguridad and SensorMovimiento, the composite     *)
(* CasaInteligente, and the simulation script under __main__.              *)
(*                                                                         *)
(* objetos is the heap of constructed devices (one record per object, in   *)
(* construction order); casa is CasaInteligente.dispositivos, a list of    *)
(* references (indices) into objetos.  Every public method of the classes  *)
(* is an action of Spec.  SpecEnergia keeps only encender, apagar and      *)
(* ejecutar_escena (plus agregar_dispositivo to populate the house), and   *)
(* SpecMain is the script under __main__.                                  *)
(*                                                                         *)
(* Outside the model: plain attribute assignment from outside the classes  *)
(* (d.intensidad = 500), adding one object to the house twice, and the     *)
(* wall-clock duration of time.sleep.  The id of a device is a label given *)
(* by the caller; the model numbers devices in construction order, as the  *)
(* script does.                                                            *)
(***************************************************************************)
EXTENDS Integers, Sequences, FiniteSets, TLC

VARIABLES objetos, casa, ultima, salida, pc, traza

vars == <<objetos, casa, ultima, salida, pc, traza>>

(* ------------------------------ bounds -------------------------------- *)

\* Largest number of devices constructed in Spec.
MaxDispositivos == 2

\* Largest number of devices constructed in SpecEnergia.
MaxCasa == 3

\* random.randint(a, b) is explored on its MaxAzar lowest outcomes and on b.
MaxAzar == 2

(* ------------------------- program constants -------------------------- *)

IntensidadMinima == 30

IntensidadMaxima == 100

(* ------------------------------ random -------------------------------- *)

\* random.randint(a, b): an integer n with a <= n <= b.
randint(a, b) == {n \in a..b : n < a + MaxAzar \/ n = b}

\* random.choice(xs): one element of the list xs.
choice(xs) == {xs[i] : i \in DOMAIN xs}

(* ------------------------------ Dispositivo --------------------------- *)

\* Dispositivo.__init__: the private fields __id_dispositivo and __estado.
Dispositivo(id_dispositivo) == [id |-> id_dispositivo, estado |-> FALSE]

obtener_estado(d) == IF d.estado THEN "Encendido" ELSE "Apagado"

cambiar_estado(d, nuevo_estado) == [d EXCEPT !.estado = nuevo_estado]

obtener_id(d) == d.id

(* ------------------------------ LuzInteligente ------------------------ *)

LuzInteligente(id_dispositivo) ==
    Dispositivo(id_dispositivo) @@ [clase |-> "LuzInteligente", intensidad |-> 0]

LuzInteligente_encender(d, n) ==
    [cambiar_estado(d, TRUE) EXCEPT !.intensidad = n]

\* Variant of LuzInteligente.apagar that leaves the intensity as it was.
LuzInteligente_apagar_sin_reset(d) == cambiar_estado(d, FALSE)

LuzInteligente_apagar(d) ==
    [cambiar_estado(d, FALSE) EXCEPT !.intensidad = 0]

LuzInteligente_mostrar_datos(d) ==
    <<"LuzInteligente", obtener_id(d), "Estado", obtener_estado(d), "Intensidad", d.intensidad>>

(* ------------------------------ CamaraSeguridad ----------------------- *)

CamaraSeguridad(id_dispositivo) ==
    Dispositivo(id_dispositivo) @@ [clase |-> "CamaraSeguridad", grabando |-> FALSE]

\* Variant of CamaraSeguridad.encender that does not start recording.
CamaraSeguridad_encender_sin_grabar(d) == cambiar_estado(d, TRUE)

CamaraSeguridad_encender(d) ==
    [cambiar_estado(d, TRUE) EXCEPT !.grabando = TRUE]

\* Variant of CamaraSeguridad.apagar that toggles instead of switching off.
CamaraSeguridad_apagar_alterna(d) ==
    [cambiar_estado(d, ~d.estado) EXCEPT !.grabando = ~d.estado]

CamaraSeguridad_apagar(d) ==
    [cambiar_estado(d, FALSE) EXCEPT !.grabando = FALSE]

CamaraSeguridad_mostrar_datos(d) ==
    <<"CamaraSeguridad", obtener_id(d), "Estado", obtener_estado(d), "Grabando", d.grabando>>

(* ------------------------------ SensorMovimiento ---------------------- *)

SensorMovimiento(id_dispositivo) ==
    Dispositivo(id_dispositivo)
        @@ [clase |-> "SensorMovimiento", movimiento_detectado |-> FALSE]

SensorMovimiento_encender(d, b) ==
    [cambiar_estado(d, TRUE) EXCEPT !.movimiento_detectado = b]

\* Variant of SensorMovimiento.apagar that keeps the last reading.
SensorMovimiento_apagar_sin_reset(d) == cambiar_estado(d, FALSE)

SensorMovimiento_apagar(d) ==
    [cambiar_estado(d, FALSE) EXCEPT !.movimiento_detectado = FALSE]

SensorMovimiento_mostrar_datos(d) ==
    <<"SensorMovimiento", obtener_id(d), "Estado", obtener_estado(d),
      "Movimiento detectado", d.movimiento_detectado>>

(* ------------------------------ dynamic dispatch ---------------------- *)

Clases == {"LuzInteligente", "CamaraSeguridad", "SensorMovimiento"}

\* The constructor call Clase(id).
Construir(clase, id_dispositivo) ==
    CASE clase = "LuzInteligente" -> LuzInteligente(id_dispositivo)
      [] clase = "CamaraSeguridad" -> CamaraSeguridad(id_dispositivo)
      [] clase = "SensorMovimiento" -> SensorMovimiento(id_dispositivo)

\* The values d.encender() may draw from the random module: an intensity for
\* a light, a boolean for a sensor, nothing (one dummy outcome) for a camera.
Sorteos(d) ==
    CASE d.clase = "LuzInteligente" -> randint(IntensidadMinima, IntensidadMaxima)
      [] d.clase = "CamaraSeguridad" -> {IntensidadMinima}
      [] d.clase = "SensorMovimiento" -> choice(<<TRUE, FALSE>>)

\* d.encender(), given the value it draws.
encender(d, azar) ==
    CASE d.clase = "LuzInteligente" -> LuzInteligente_encender(d, azar)
      [] d.clase = "CamaraSeguridad" -> CamaraSeguridad_encender(d)
      [] d.clase = "SensorMovimiento" -> SensorMovimiento_encender(d, azar)

\* d.apagar()
apagar(d) ==
    CASE d.clase = "LuzInteligente" -> LuzInteligente_apagar(d)
      [] d.clase = "CamaraSeguridad" -> CamaraSeguridad_apagar(d)
      [] d.clase = "SensorMovimiento" -> SensorMovimiento_apagar(d)

\* d.mostrar_datos()
mostrar_datos(d) ==
    CASE d.clase = "LuzInteligente" -> LuzInteligente_mostrar_datos(d)
      [] d.clase = "CamaraSeguridad" -> CamaraSeguridad_mostrar_datos(d)
      [] d.clase = "SensorMovimiento" -> SensorMovimiento_mostrar_datos(d)

(* ------------------------------ CasaInteligente ----------------------- *)

\* CasaInteligente.__init__: self.dispositivos = []
CasaInteligente == << >>

agregar_dispositivo(dispositivos, ref) == Append(dispositivos, ref)

\* The lines mostrar_todos prints: the header, then one line per device.
mostrar_todos(objs, dispositivos) ==
    <<"ESTADO ACTUAL DE LOS DISPOSITIVOS">>
        \o [k \in DOMAIN dispositivos |-> mostrar_datos(objs[dispositivos[k]])]

\* Variant of the test of ejecutar_escena with all() in place of any(), over
\* the sensors of the house.
hay_movimiento_todos(objs, dispositivos) ==
    /\ \E k \in DOMAIN dispositivos : objs[dispositivos[k]].clase = "SensorMovimiento"
    /\ \A k \in DOMAIN dispositivos :
           objs[dispositivos[k]].clase = "SensorMovimiento"
               => objs[dispositivos[k]].movimiento_detectado

\* any(isinstance(d, SensorMovimiento) and d.movimiento_detectado for d in ...)
hay_movimiento(objs, dispositivos) ==
    \E k \in DOMAIN dispositivos :
        /\ objs[dispositivos[k]].clase = "SensorMovimiento"
        /\ objs[dispositivos[k]].movimiento_detectado

\* Variant of ejecutar_escena without the test: lights and cameras are
\* switched on at every call.
ejecutar_escena_siempre(objs, dispositivos, azar) ==
    [i \in DOMAIN objs |->
        IF /\ \E k \in DOMAIN dispositivos : dispositivos[k] = i
           /\ objs[i].clase \in {"LuzInteligente", "CamaraSeguridad"}
        THEN encender(objs[i], azar[i])
        ELSE objs[i]]

\* Variant of ejecutar_escena whose loop tests isinstance(d, Dispositivo):
\* the sensors are switched on again too, and read no movement.
ejecutar_escena_todos(objs, dispositivos, azar) ==
    IF hay_movimiento(objs, dispositivos)
    THEN [i \in DOMAIN objs |->
            IF \E k \in DOMAIN dispositivos : dispositivos[k] = i
            THEN encender(objs[i],
                          IF objs[i].clase = "SensorMovimiento" THEN FALSE ELSE azar[i])
            ELSE objs[i]]
    ELSE objs

\* The heap after ejecutar_escena; azar[i] is the value object i draws if it
\* is switched on.
ejecutar_escena(objs, dispositivos, azar) ==
    IF hay_movimiento(objs, dispositivos)
    THEN [i \in DOMAIN objs |->
            IF /\ \E k \in DOMAIN dispositivos : dispositivos[k] = i
               /\ objs[i].clase \in {"LuzInteligente", "CamaraSeguridad"}
            THEN encender(objs[i], azar[i])
            ELSE objs[i]]
    ELSE objs

\* The lines ejecutar_escena prints.
ejecutar_escena_salida(objs, dispositivos) ==
    <<"Ejecutando escena automatica">>
        \o (IF hay_movimiento(objs, dispositivos)
            THEN <<"Movimiento detectado">>
            ELSE <<"No se detecto movimiento">>)

\* The draws available to one call of ejecutar_escena.
SorteosEscena(objs) ==
    {az \in [DOMAIN objs -> randint(IntensidadMinima, IntensidadMaxima)] :
        \A i \in DOMAIN objs :
            objs[i].clase # "LuzInteligente" => az[i] = IntensidadMinima}

(* ------------------------------ history ------------------------------- *)

\* ultima records the last call: the method; the object it was called on for
\* encender, apagar and cambiar_estado (0 otherwise); for apagar, what
\* obtener_estado gave just before the call and whether the call before it was
\* apagar on the same object; for ejecutar_escena, antes is "Apagado" when
\* some light or camera of the house was off at the call.
Llamada(op, ref, antes) ==
    [op |-> op, ref |-> ref, antes |-> antes,
     rep |-> (op = "apagar" /\ ultima.op = op /\ ultima.ref = ref)]

AlgunoApagado(objs, dispositivos) ==
    \E k \in DOMAIN dispositivos :
        /\ objs[dispositivos[k]].clase \in {"LuzInteligente", "CamaraSeguridad"}
        /\ ~objs[dispositivos[k]].estado

Libre == [paso |-> "libre", k |-> 0]

(* ------------------------------ actions ------------------------------- *)

Init ==
    /\ objetos = << >>
    /\ casa = CasaInteligente
    /\ ultima = [op |-> "__init__", ref |-> 0, antes |-> "-", rep |-> FALSE]
    /\ salida = << >>
    /\ pc = Libre
    /\ traza = << >>

\* casa.agregar_dispositivo(Clase(id)) with a newly constructed device, while
\* fewer than max devices exist.
Agregar(clase, max) ==
    /\ pc = Libre
    /\ Len(objetos) < max
    /\ objetos' = Append(objetos, Construir(clase, Len(objetos) + 1))
    /\ casa' = agregar_dispositivo(casa, Len(objetos) + 1)
    /\ ultima' = Llamada("agregar_dispositivo", 0, "-")
    /\ salida' = << >>
    /\ UNCHANGED <<pc, traza>>

AgregarDispositivo(clase) == Agregar(clase, MaxDispositivos)

AgregarDispositivoEnergia(clase) == Agregar(clase, MaxCasa)

Encender(i) ==
    /\ pc = Libre
    /\ \E azar \in Sorteos(objetos[i]) :
           objetos' = [objetos EXCEPT ![i] = encender(@, azar)]
    /\ ultima' = Llamada("encender", i, "-")
    /\ salida' = << >>
    /\ UNCHANGED <<casa, pc, traza>>

Apagar(i) ==
    /\ pc = Libre
    /\ objetos' = [objetos EXCEPT ![i] = apagar(@)]
    /\ ultima' = Llamada("apagar", i, obtener_estado(objetos[i]))
    /\ salida' = << >>
    /\ UNCHANGED <<casa, pc, traza>>

CambiarEstado(i, nuevo_estado) ==
    /\ pc = Libre
    /\ objetos' = [objetos EXCEPT ![i] = cambiar_estado(@, nuevo_estado)]
    /\ ultima' = Llamada("cambiar_estado", i, "-")
    /\ salida' = << >>
    /\ UNCHANGED <<casa, pc, traza>>

ObtenerEstado(i) ==
    /\ pc = Libre
    /\ salida' = <<obtener_estado(objetos[i])>>
    /\ ultima' = Llamada("obtener_estado", 0, "-")
    /\ UNCHANGED <<objetos, casa, pc, traza>>

ObtenerId(i) ==
    /\ pc = Libre
    /\ salida' = <<obtener_id(objetos[i])>>
    /\ ultima' = Llamada("obtener_id", 0, "-")
    /\ UNCHANGED <<objetos, casa, pc, traza>>

MostrarDatos(i) ==
    /\ pc = Libre
    /\ salida' = <<mostrar_datos(objetos[i])>>
    /\ ultima' = Llamada("mostrar_datos", 0, "-")
    /\ UNCHANGED <<objetos, casa, pc, traza>>

MostrarTodos ==
    /\ pc = Libre
    /\ salida' = mostrar_todos(objetos, casa)
    /\ ultima' = Llamada("mostrar_todos", 0, "-")
    /\ UNCHANGED <<objetos, casa, pc, traza>>

EjecutarEscena ==
    /\ pc = Libre
    /\ \E azar \in SorteosEscena(objetos) :
           objetos' = ejecutar_escena(objetos, casa, azar)
    /\ salida' = ejecutar_escena_salida(objetos, casa)
    /\ ultima' = Llamada("ejecutar_escena", 0,
                         IF AlgunoApagado(objetos, casa) THEN "Apagado" ELSE "Encendido")
    /\ UNCHANGED <<casa, pc, traza>>

\* Any caller: every public method of the devices and of the house.
Next ==
    \/ \E clase \in Clases : AgregarDispositivo(clase)
    \/ \E i \in DOMAIN objetos : Encender(i)
    \/ \E i \in DOMAIN objetos : Apagar(i)
    \/ \E i \in DOMAIN objetos, b \in BOOLEAN : CambiarEstado(i, b)
    \/ \E i \in DOMAIN objetos : ObtenerEstado(i)
    \/ \E i \in DOMAIN objetos : ObtenerId(i)
    \/ \E i \in DOMAIN objetos : MostrarDatos(i)
    \/ MostrarTodos
    \/ EjecutarEscena

Spec == Init /\ [][Next]_vars

\* A caller that uses only encender, apagar and ejecutar_escena on the devices
\* it has added to the house.
NextEnergia ==
    \/ \E clase \in Clases : AgregarDispositivoEnergia(clase)
    \/ \E i \in DOMAIN objetos : Encender(i)
    \/ \E i \in DOMAIN objetos : Apagar(i)
    \/ EjecutarEscena

SpecEnergia == Init /\ [][NextEnergia]_vars

(* ------------------------------ __main__ ------------------------------ *)

\* The list literal of the script: the classes and ids of its five devices.
Simulados ==
    << <<"LuzInteligente", 1>>, <<"LuzInteligente", 2>>, <<"CamaraSeguridad", 3>>,
       <<"CamaraSeguridad", 4>>, <<"SensorMovimiento", 5>> >>

Paso(paso, k) == [paso |-> paso, k |-> k]

\* One entry of traza: the statement executed and the object it concerned.
Hecho(op, ref) == [op |-> op, ref |-> ref]

InitMain ==
    /\ objetos = << >>
    /\ casa = << >>
    /\ ultima = [op |-> "__main__", ref |-> 0, antes |-> "-", rep |-> FALSE]
    /\ salida = << >>
    /\ pc = Paso("titulo", 0)
    /\ traza = << >>

MainTitulo ==
    /\ pc = Paso("titulo", 0)
    /\ salida' = <<"Simulacion de Casa Inteligente">>
    /\ ultima' = Llamada("print", 0, "-")
    /\ traza' = Append(traza, Hecho("titulo", 0))
    /\ pc' = Paso("casa", 0)
    /\ UNCHANGED <<objetos, casa>>

MainCasa ==
    /\ pc = Paso("casa", 0)
    /\ casa' = CasaInteligente
    /\ ultima' = Llamada("CasaInteligente", 0, "-")
    /\ salida' = << >>
    /\ traza' = Append(traza, Hecho("CasaInteligente", 0))
    /\ pc' = Paso("construir", 1)
    /\ UNCHANGED objetos

MainConstruir ==
    /\ pc.paso = "construir"
    /\ objetos' = Append(objetos, Construir(Simulados[pc.k][1], Simulados[pc.k][2]))
    /\ ultima' = Llamada(Simulados[pc.k][1], 0, "-")
    /\ salida' = << >>
    /\ traza' = Append(traza, Hecho("construir", pc.k))
    /\ pc' = IF pc.k < Len(Simulados) THEN Paso("construir", pc.k + 1)
                                      ELSE Paso("agregar", 1)
    /\ UNCHANGED casa

MainAgregar ==
    /\ pc.paso = "agregar"
    /\ casa' = agregar_dispositivo(casa, pc.k)
    /\ ultima' = Llamada("agregar_dispositivo", 0, "-")
    /\ salida' = << >>
    /\ traza' = Append(traza, Hecho("agregar_dispositivo", pc.k))
    /\ pc' = IF pc.k < Len(Simulados) THEN Paso("agregar", pc.k + 1)
                                      ELSE Paso("encender", 1)
    /\ UNCHANGED objetos

MainEncender ==
    /\ pc.paso = "encender"
    /\ \E azar \in Sorteos(objetos[pc.k]) :
           objetos' = [objetos EXCEPT ![pc.k] = encender(@, azar)]
    /\ ultima' = Llamada("encender", pc.k, "-")
    /\ salida' = << >>
    /\ traza' = Append(traza, Hecho("encender", pc.k))
    /\ pc' = IF pc.k < Len(Simulados) THEN Paso("encender", pc.k + 1)
                                      ELSE Paso("mostrar_inicial", 0)
    /\ UNCHANGED casa

MainMostrarInicial ==
    /\ pc = Paso("mostrar_inicial", 0)
    /\ salida' = mostrar_todos(objetos, casa)
    /\ ultima' = Llamada("mostrar_todos", 0, "-")
    /\ traza' = Append(traza, Hecho("mostrar_todos", 0))
    /\ pc' = Paso("sleep_1", 0)
    /\ UNCHANGED <<objetos, casa>>

MainSleep1 ==
    /\ pc = Paso("sleep_1", 0)
    /\ ultima' = Llamada("sleep", 0, "-")
    /\ salida' = << >>
    /\ traza' = Append(traza, Hecho("sleep", 0))
    /\ pc' = Paso("escena", 0)
    /\ UNCHANGED <<objetos, casa>>

MainEscena ==
    /\ pc = Paso("escena", 0)
    /\ \E azar \in SorteosEscena(objetos) :
           objetos' = ejecutar_escena(objetos, casa, azar)
    /\ salida' = ejecutar_escena_salida(objetos, casa)
    /\ ultima' = Llamada("ejecutar_escena", 0,
                         IF AlgunoApagado(objetos, casa) THEN "Apagado" ELSE "Encendido")
    /\ traza' = Append(traza, Hecho("ejecutar_escena", 0))
    /\ pc' = Paso("sleep_2", 0)
    /\ UNCHANGED casa

MainSleep2 ==
    /\ pc = Paso("sleep_2", 0)
    /\ ultima' = Llamada("sleep", 0, "-")
    /\ salida' = << >>
    /\ traza' = Append(traza, Hecho("sleep", 0))
    /\ pc' = Paso("mostrar_final", 0)
    /\ UNCHANGED <<objetos, casa>>

MainMostrarFinal ==
    /\ pc = Paso("mostrar_final", 0)
    /\ salida' = mostrar_todos(objetos, casa)
    /\ ultima' = Llamada("mostrar_todos", 0, "-")
    /\ traza' = Append(traza, Hecho("mostrar_todos", 0))
    /\ pc' = Paso("fin", 0)
    /\ UNCHANGED <<objetos, casa>>

MainFin ==
    /\ pc = Paso("fin", 0)
    /\ salida' = <<"Fin de la simulacion">>
    /\ ultima' = Llamada("print", 0, "-")
    /\ traza' = Append(traza, Hecho("fin", 0))
    /\ pc' = Paso("terminado", 0)
    /\ UNCHANGED <<objetos, casa>>

NextMain ==
    \/ MainTitulo
    \/ MainCasa
    \/ MainConstruir
    \/ MainAgregar
    \/ MainEncender
    \/ MainMostrarInicial
    \/ MainSleep1
    \/ MainEscena
    \/ MainSleep2
    \/ MainMostrarFinal
    \/ MainFin

\* The script is one sequential thread: whenever a statement remains, it runs.
SpecMain == InitMain /\ [][NextMain]_vars /\ WF_vars(NextMain)

(* ------------------------------ properties ---------------------------- *)

EsLuz(d) == d.clase = "LuzInteligente"

EsCamara(d) == d.clase = "CamaraSeguridad"

EsSensor(d) == d.clase = "SensorMovimiento"

\* The devices of the house: references into objetos.
EnCasa == {casa[k] : k \in DOMAIN casa}

\* Some sensor of the house reports movement (in the current state).
AlgunSensorDetecta == \E i \in EnCasa : EsSensor(objetos[i]) /\ objetos[i].movimiento_detectado

\* Device d is on in the way its class describes.
BienEncendido(d) ==
    /\ d.estado
    /\ EsLuz(d) => d.intensidad \in IntensidadMinima..IntensidadMaxima
    /\ EsCamara(d) => d.grabando

\* Device d holds the off-value of its class.
ValorApagado(d) ==
    /\ EsLuz(d) => d.intensidad = 0
    /\ EsCamara(d) => d.grabando = FALSE
    /\ EsSensor(d) => d.movimiento_detectado = FALSE

\* C1: right after apagar() on a device of any class, obtener_estado() gives
\* "Apagado" and the field of its class holds its off-value (intensidad 0,
\* grabando False, movimiento_detectado False).
C1_ApagarDejaValorApagado ==
    ultima.op = "apagar" =>
        /\ obtener_estado(objetos[ultima.ref]) = "Apagado"
        /\ ValorApagado(objetos[ultima.ref])

\* C1 witness: apagar() has just run on a light that was on.
C1_Testigo ==
    /\ ultima.op = "apagar"
    /\ ultima.antes = "Encendido"
    /\ EsLuz(objetos[ultima.ref])

\* C2 as stated: in every reachable state the intensity of a light is in
\* 0..100, is 0 when the light is off and is in 30..100 when it is on.
C2_IntensidadSegunEstado ==
    \A i \in DOMAIN objetos :
        EsLuz(objetos[i]) =>
            /\ objetos[i].intensidad \in 0..IntensidadMaxima
            /\ ~objetos[i].estado => objetos[i].intensidad = 0
            /\ objetos[i].estado =>
                   objetos[i].intensidad \in IntensidadMinima..IntensidadMaxima

\* C3: when ejecutar_escena() is called while at least one sensor of the
\* house reports movement, afterwards every light and every camera of the
\* house is on, every light with intensity in 30..100 and every camera
\* recording, whatever their state was before.
C3_EscenaEnciendeTodo ==
    [][(ultima'.op = "ejecutar_escena" /\ AlgunSensorDetecta)
          => \A k \in DOMAIN casa' :
                 (EsLuz(objetos'[casa'[k]]) \/ EsCamara(objetos'[casa'[k]]))
                     => BienEncendido(objetos'[casa'[k]])]_vars

\* C3 witness: the scene has just run in a house with two sensors of which
\* exactly one reports movement, and a light that was off is now on.
C3_Testigo ==
    /\ ultima.op = "ejecutar_escena"
    /\ ultima.antes = "Apagado"
    /\ \E i, j \in EnCasa :
           /\ EsSensor(objetos[i]) /\ objetos[i].movimiento_detectado
           /\ EsSensor(objetos[j]) /\ ~objetos[j].movimiento_detectado
    /\ \E i \in EnCasa : EsLuz(objetos[i]) /\ objetos[i].estado

\* C4: when ejecutar_escena() is called while no sensor of the house reports
\* movement (an empty house and a house without sensors included), no device
\* and not the list of the house changes.
C4_SinMovimientoNadaCambia ==
    [][(ultima'.op = "ejecutar_escena" /\ ~AlgunSensorDetecta)
          => (objetos' = objetos /\ casa' = casa)]_vars

\* C4 witness: the scene has just run in a house with a sensor that is on
\* and reports no movement, and a light or camera that was off is still off.
C4_Testigo ==
    /\ ultima.op = "ejecutar_escena"
    /\ ultima.antes = "Apagado"
    /\ ~AlgunSensorDetecta
    /\ \E i \in EnCasa : EsSensor(objetos[i]) /\ objetos[i].estado
    /\ \E i \in EnCasa : ~EsSensor(objetos[i]) /\ ~objetos[i].estado

\* C5 as stated: for every camera, grabando equals the power state in every
\* reachable state.
C5_GrabandoIgualEstado ==
    \A i \in DOMAIN objetos :
        EsCamara(objetos[i]) => objetos[i].grabando = objetos[i].estado

\* C6 as stated: a device is constructed off, and a step changes the power
\* state of a device only if it is a call of encender() or apagar(), or of
\* ejecutar_escena(), which calls encender().
C6_SoloEncenderYApagar ==
    [][/\ Len(objetos') > Len(objetos) => ~objetos'[Len(objetos')].estado
       /\ (\E i \in DOMAIN objetos : objetos'[i].estado # objetos[i].estado)
              => ultima'.op \in {"encender", "apagar", "ejecutar_escena"}]_vars

\* C7: apagar() called again right after apagar() on the same device leaves
\* the device, and every other device, as the first call left it.
C7_ApagarIdempotente ==
    [][(ultima.op = "apagar" /\ ultima'.op = "apagar" /\ ultima'.ref = ultima.ref)
          => objetos' = objetos]_vars

\* C7 witness: the second of two consecutive apagar() calls on one device has
\* just run.
C7_Testigo ==
    /\ ultima.op = "apagar"
    /\ ultima.rep
    /\ ~objetos[ultima.ref].estado

\* The statements of the script that C8 lists, in its order.
PasosEsperados ==
    <<Hecho("CasaInteligente", 0)>>
        \o [k \in 1..Len(Simulados) |-> Hecho("agregar_dispositivo", k)]
        \o [k \in 1..Len(Simulados) |-> Hecho("encender", k)]
        \o <<Hecho("mostrar_todos", 0), Hecho("ejecutar_escena", 0),
             Hecho("mostrar_todos", 0), Hecho("fin", 0)>>

EsPasoEsperado(h) ==
    h.op \in {"CasaInteligente", "agregar_dispositivo", "encender", "mostrar_todos",
              "ejecutar_escena", "fin"}

EsPrefijo(s, t) == Len(s) <= Len(t) /\ \A k \in DOMAIN s : s[k] = t[k]

\* The house and the devices as C8 describes them at the end of the script.
EstadoFinal ==
    /\ casa = [k \in 1..Len(Simulados) |-> k]
    /\ Len(objetos) = Len(Simulados)
    /\ \A k \in DOMAIN objetos :
           /\ objetos[k].clase = Simulados[k][1]
           /\ obtener_id(objetos[k]) = Simulados[k][2]
           /\ BienEncendido(objetos[k])

\* C8: the script always runs to its end; at every moment the listed
\* statements executed so far are a prefix of the listed order; and at the end
\* all of them have run, the house holds the five devices in insertion order,
\* all five are on, both cameras record and both lights have intensity in
\* 30..100.
C8_SimulacionCompleta ==
    /\ [](/\ EsPrefijo(SelectSeq(traza, EsPasoEsperado), PasosEsperados)
          /\ pc.paso = "terminado" =>
                 /\ SelectSeq(traza, EsPasoEsperado) = PasosEsperados
                 /\ EstadoFinal)
    /\ <>(pc.paso = "terminado")

\* C8 witness: the script has ended after a run in which the sensor reported
\* movement, so that the scene switched the lights and cameras on again.
C8_Testigo ==
    /\ pc.paso = "terminado"
    /\ objetos[5].movimiento_detectado
    /\ EstadoFinal

\* C9: ejecutar_escena() decides by the readings at the start of the call (its
\* alert line is printed exactly when a sensor of the house reported movement
\* then), and it changes no sensor of the house and not the list of the house,
\* whether or not the scene fires.
C9_EscenaNoTocaSensores ==
    [][ultima'.op = "ejecutar_escena"
          => /\ casa' = casa
             /\ (salida'[2] = "Movimiento detectado") <=> AlgunSensorDetecta
             /\ \A i \in EnCasa :
                    EsSensor(objetos[i]) => objetos'[i] = objetos[i]]_vars

\* C9 witness: the scene has just fired, switching on a light or camera that
\* was off, and the sensor of the house still reports movement.
C9_Testigo ==
    /\ ultima.op = "ejecutar_escena"
    /\ ultima.antes = "Apagado"
    /\ salida[2] = "Movimiento detectado"
    /\ \E i \in EnCasa :
           EsSensor(objetos[i]) /\ objetos[i].estado /\ objetos[i].movimiento_detectado

\* C10: after any sequence of encender(), apagar() and ejecutar_escena(), a
\* sensor that reports movement is on; and ejecutar_escena() called in a house
\* all of whose sensors are off changes no device.
C10_MovimientoImplicaEncendido ==
    /\ [](\A i \in DOMAIN objetos :
              (EsSensor(objetos[i]) /\ objetos[i].movimiento_detectado)
                  => objetos[i].estado)
    /\ [][(/\ ultima'.op = "ejecutar_escena"
           /\ \A i \in EnCasa : EsSensor(objetos[i]) => ~objetos[i].estado)
             => objetos' = objetos]_vars

\* C10 witness: the scene has just run in a house that has a sensor and whose
\* sensors are all off, and a light or camera that was off is still off.
C10_Testigo ==
    /\ ultima.op = "ejecutar_escena"
    /\ ultima.antes = "Apagado"
    /\ \E i \in EnCasa : EsSensor(objetos[i])
    /\ \A i \in EnCasa : EsSensor(objetos[i]) => ~objetos[i].estado
    /\ \E i \in EnCasa : ~EsSensor(objetos[i]) /\ ~objetos[i].estado

====
